---------------------------- MODULE Spec2Model ----------------------------
(***************************************************************************)
(* Model of github.com/rekby/objwalker: the reflection walker of           *)
(* objwalker.go (Walker, walkerState, loopDetector, kindRoute and the      *)
(* per-kind handlers), run over a catalogue of Go values.                  *)
(*                                                                         *)
(* A reflect.Value is a node of Heap: its kind, its static type, the       *)
(* address UnsafeAddr() would return (0 when CanAddr() is false), and the  *)
(* values Index(i) / Field(i) / Elem() / MapRange() yield.                 *)
(* The callback is the environment: every invocation returns one of        *)
(* CallbackResults, chosen freely in the first walk of a Walker and        *)
(* repeated by a further walk of the same Walker.                          *)
(* The values are shared with the callback: through a settable             *)
(* info.Value it may write the storage walked, and mem holds what it has   *)
(* written.  Len, Index, Elem and IsNil read the storage as it is now.     *)
(* Two goroutines may be in Walk on the same Walker: pc, root, state,      *)
(* stack, ret, result, calls and nextId are those of the goroutine that    *)
(* runs, other holds them for the goroutine that waits.                    *)
(***************************************************************************)
EXTENDS Integers, Sequences, FiniteSets, TLC

VARIABLES w, checkValueResult, pc, root, state, stack, ret, result, calls, nextId,
          routed, prev, mem, other

vars == <<w, checkValueResult, pc, root, state, stack, ret, result, calls, nextId,
          routed, prev, mem, other>>

(***************************************************************************)
(* Bounds                                                                  *)
(***************************************************************************)
\* depth of the walkValue recursion at which the goroutine stack is exhausted
MaxDepth == 8
\* number of Walk calls made on one Walker
MaxWalks == 2

(***************************************************************************)
(* Errors (objwalker.go:13-27) and the callback's possible results         *)
(***************************************************************************)
NoError == "nil"
ErrSkip == "ErrSkip"
\* an error value wrapping ErrSkip (fmt.Errorf("...: %w", ErrSkip))
WrappedErrSkip == "wrapped(ErrSkip)"
errInvalidKind == "errInvalidKind"
ErrUnknownKind == "wrapped(ErrUnknownKind)"
ErrBadInternalReflectValueDetected == "ErrBadInternalReflectValueDetected"
\* the error the tests' callbacks return
errTest == "errTest"

CallbackResults == {NoError, ErrSkip, WrappedErrSkip, errTest}

\* errors.Is(err, ErrSkip)
IsErrSkip(err) == err \in {ErrSkip, WrappedErrSkip}

zeroPointer == 0

(***************************************************************************)
(* The values walked.  Leaf / Container / MapValue / NilValue build the    *)
(* reflect.Value of a node; kids are the nodes Index/Field/Elem return,    *)
(* entries the <<key, value>> pairs MapRange yields.  A value reached      *)
(* through a pointer or as a slice item is addressable, and so are the     *)
(* fields and items of an addressable struct or array; a root, a map key,  *)
(* a map value and the value held by an interface are not.                 *)
(***************************************************************************)
Leaf(k, t, a) ==
  [kind |-> k, type |-> t, addr |-> a, isNil |-> FALSE, kids |-> <<>>, entries |-> <<>>]
Container(k, t, a, ks) ==
  [kind |-> k, type |-> t, addr |-> a, isNil |-> FALSE, kids |-> ks, entries |-> <<>>]
MapValue(t, es) ==
  [kind |-> "Map", type |-> t, addr |-> 0, isNil |-> FALSE, kids |-> <<>>, entries |-> es]
NilValue(k, t, a) ==
  [kind |-> k, type |-> t, addr |-> a, isNil |-> TRUE, kids |-> <<>>, entries |-> <<>>]

Heap ==
  <<
  \* 1: Walk(4)
    Leaf("Int", "int", 0),
  \* 2..4: Walk([2]int{1, 2})
    Container("Array", "[2]int", 0, <<3, 4>>),
    Leaf("Int", "int", 0),
    Leaf("Int", "int", 0),
  \* 5..7: type S struct{ P *S }; s.P = &s; Walk(&s)
    Container("Ptr", "*S", 0, <<6>>),
    Container("Struct", "S", 100, <<7>>),
    Container("Ptr", "*S", 100, <<6>>),
  \* 8..12: Walk(map[int]string{1: "2", 3: "4"})
    MapValue("map[int]string", <<<<9, 10>>, <<11, 12>>>>),
    Leaf("Int", "int", 0),
    Leaf("String", "string", 0),
    Leaf("Int", "int", 0),
    Leaf("String", "string", 0),
  \* 13..19: Walk(map[[1]int]string{{1}: "a", {2}: "b"})
    MapValue("map[[1]int]string", <<<<14, 16>>, <<17, 19>>>>),
    Container("Array", "[1]int", 0, <<15>>),
    Leaf("Int", "int", 0),
    Leaf("String", "string", 0),
    Container("Array", "[1]int", 0, <<18>>),
    Leaf("Int", "int", 0),
    Leaf("String", "string", 0),
  \* 20..21: type M map[int]M; m := M{}; m[0] = m; Walk(m)
    MapValue("M", <<<<21, 20>>>>),
    Leaf("Int", "int", 0),
  \* 22..25: Walk(&[2]struct{}{}): items of size 0 share the array's address
    Container("Ptr", "*[2]struct{}", 0, <<23>>),
    Container("Array", "[2]struct{}", 200, <<24, 25>>),
    Container("Struct", "struct{}", 200, <<>>),
    Container("Struct", "struct{}", 200, <<>>),
  \* 26..30: x := 1; v := struct{ A, B *int }{&x, &x}; Walk(&v)
    Container("Ptr", "*struct{A,B *int}", 0, <<27>>),
    Container("Struct", "struct{A,B *int}", 300, <<28, 29>>),
    Container("Ptr", "*int", 300, <<30>>),
    Container("Ptr", "*int", 308, <<30>>),
    Leaf("Int", "int", 400),
  \* 31..36: Walk([]interface{}{5, nil, (*int)(nil)})
    Container("Slice", "[]interface{}", 0, <<32, 33, 34>>),
    Container("Interface", "interface{}", 500, <<35>>),
    NilValue("Interface", "interface{}", 516),
    Container("Interface", "interface{}", 532, <<36>>),
    Leaf("Int", "int", 0),
    NilValue("Ptr", "*int", 0),
  \* 37: Walk(map[int]int(nil))
    NilValue("Map", "map[int]int", 0),
  \* 38..42: Walk(S{Val1: 2, Slice: []string{"hello", "world"}})  (ExampleWalker)
    Container("Struct", "struct{Val1 int; Slice []string}", 0, <<39, 40>>),
    Leaf("Int", "int", 0),
    Container("Slice", "[]string", 0, <<41, 42>>),
    Leaf("String", "string", 600),
    Leaf("String", "string", 616),
  \* 43..45: Walk(struct{ C chan bool; F func() }{c, f})
    Container("Struct", "struct{C chan bool; F func()}", 0, <<44, 45>>),
    Leaf("Chan", "chan bool", 0),
    Leaf("Func", "func()", 0),
  \* 46..47: s := make([]interface{}, 1); s[0] = s; Walk(s)
    Container("Slice", "[]interface{}", 0, <<47>>),
    Container("Interface", "interface{}", 700, <<46>>),
  \* 48..50: x := 1; p := &x; Walk(&p)
    Container("Ptr", "**int", 0, <<49>>),
    Container("Ptr", "*int", 800, <<50>>),
    Leaf("Int", "int", 808),
  \* 51..55: s := []int{1, 2}; Walk(&s); 55 is the item of the []int{7} a
  \* callback may store in s
    Container("Ptr", "*[]int", 0, <<52>>),
    Container("Slice", "[]int", 820, <<53, 54>>),
    Leaf("Int", "int", 900),
    Leaf("Int", "int", 908),
    Leaf("Int", "int", 920),
  \* 56..60: v := TestStructB{}; Walk(&v)  (TestWalker_Walk/Deep)
    Container("Ptr", "*TestStructB", 0, <<57>>),
    Container("Struct", "TestStructB", 1000, <<58, 59>>),
    Leaf("Int", "int", 1000),
    Container("Struct", "TestStructA", 1008, <<60>>),
    Leaf("Int", "int", 1008),
  \* 61..66: type T struct{ V int }; t := T{}; v := struct{ A, B *T }{&t, &t}
  \* Walk(&v)
    Container("Ptr", "*struct{A,B *T}", 0, <<62>>),
    Container("Struct", "struct{A,B *T}", 1100, <<63, 64>>),
    Container("Ptr", "*T", 1100, <<65>>),
    Container("Ptr", "*T", 1108, <<65>>),
    Container("Struct", "T", 1200, <<66>>),
    Leaf("Int", "int", 1200),
  \* 67: reflect.Value{}, the zero Value: what Elem() of a nil pointer or a nil
  \* interface returns; no root and no item leads to it
    Leaf("Invalid", "", 0)
  >>

Nodes == DOMAIN Heap

\* the interface{} argument of Walk: 0 is the nil interface
NilRoot == 0
\* the zero reflect.Value, of kind Invalid
InvalidValue == 67
Roots == {NilRoot, 1, 2, 5, 8, 13, 20, 22, 26, 31, 37, 38, 43, 46, 48, 51, 56, 61}

\* reflect.Value.CanAddr()
CanAddr(v) == Heap[v].addr # zeroPointer
\* reflect.Value.UnsafeAddr()
UnsafeAddr(v) == Heap[v].addr
\* every address a pointer read can produce
Addrs == {zeroPointer} \cup {Heap[v].addr : v \in Nodes}

\* reflect.Value.CanSet(): the fields of the catalogue are exported
CanSet(v) == CanAddr(v)

\* the storage before any write of the callback
NoMutation == [nilled |-> {}, kids |-> [v \in {} |-> <<>>], ints |-> {}]
\* the callback leaves the storage alone
NoWrite == "none"
\* the values whose storage the callbacks modelled write
Mutable == 48..60
\* the items of the slice a callback stores with Set: []int{7}
NewItems(v) == <<55>>
\* what the callback can do to the storage of v through info.Value
\*   SetNil  info.Value.Set(reflect.Zero(info.Value.Type())) of a pointer
\*   SetLen  info.Value.SetLen(1) of a slice
\*   Set     info.Value.Set(reflect.ValueOf([]int{7})) of a slice
\*   SetInt  info.Value.SetInt(1)  (TestWalker_Walk/Deep)
Writable(v) ==
  {NoWrite} \cup
  (IF v \in Mutable /\ CanSet(v)
   THEN CASE Heap[v].kind = "Ptr" -> {"SetNil"}
          [] Heap[v].kind = "Slice" -> {"SetLen", "Set"}
          [] Heap[v].kind = "Int" -> {"SetInt"}
          [] OTHER -> {}
   ELSE {})

\* the items / fields / pointee of v in the storage m
KidsIn(m, v) == IF v \in DOMAIN m.kids THEN m.kids[v] ELSE Heap[v].kids
\* the storage m after the write wr to v
Write(m, v, wr) ==
  CASE wr = "SetNil" -> [m EXCEPT !.nilled = @ \cup {v}, !.kids = (v :> <<>>) @@ @]
    [] wr = "SetLen" -> [m EXCEPT !.kids = (v :> SubSeq(KidsIn(m, v), 1, 1)) @@ @]
    [] wr = "Set" -> [m EXCEPT !.kids = (v :> NewItems(v)) @@ @]
    [] wr = "SetInt" -> [m EXCEPT !.ints = @ \cup {v}]
    [] OTHER -> m

\* the items / fields / pointee of v now
Kids(v) == KidsIn(mem, v)

\* mutant: the items are taken from the last to the first
IndexReversed(v, i) == Kids(v)[Len(Kids(v)) - i]
\* reflect.Value.Index(i) of an array or slice, Field(i) of a struct
Index(v, i) == Kids(v)[i + 1]
\* reflect.Value.Len() / NumField()
ValueLen(v) == Len(Kids(v))
\* mutant: Elem yields the pointer itself
ElemSelf(v) == v
\* reflect.Value.Elem() of a pointer or interface: the zero Value when it is nil
Elem(v) == IF Kids(v) = <<>> THEN InvalidValue ELSE Kids(v)[1]
\* reflect.Value.IsNil()
IsNil(v) == Heap[v].isNil \/ v \in mem.nilled
\* iterator.Key() and iterator.Value() at entry e of the map
MapKey(v, e) == Heap[v].entries[e][1]
\* mutant: the value is read from the entry after the key's
MapValOfNextEntry(v, e) == Heap[v].entries[(e % Len(Heap[v].entries)) + 1][2]
MapVal(v, e) == Heap[v].entries[e][2]

ContainerKinds == {"Array", "Slice", "Map", "Struct", "Ptr", "Interface"}
SimpleKinds == {"Chan", "Func", "String", "Bool", "Int", "Uintptr", "Float64",
                "Complex128", "UnsafePointer"}

(***************************************************************************)
(* Session: Walker (objwalker.go:68-115) and walkerState (117-131)         *)
(***************************************************************************)
\* mutant: New leaves LoopProtection at the zero value of bool
NewUnprotected == [LoopProtection |-> FALSE, UnsafeReadDirectPtr |-> FALSE]
\* New(f): the callback f is the environment (see CallbackResults)
New == [LoopProtection |-> TRUE, UnsafeReadDirectPtr |-> FALSE]

\* newWalkerState(opts): a copy of the options and an empty visited table;
\* visited[addr][type] is kept as the set of pairs <<addr, type>>
newWalkerState(opts) ==
  [LoopProtection |-> opts.LoopProtection,
   UnsafeReadDirectPtr |-> opts.UnsafeReadDirectPtr,
   visited |-> {}]

\* newValue(v).ptr: the pointer word read out of the reflect.Value.  When the
\* layout assumed by the value struct is the runtime's (checkValue) it is the
\* data address of an addressable value, and for a value that is not
\* addressable the word reflect keeps for it: the address of a copy, or the
\* pointer held (TestWalkerState_GetDirectPointer/unadressable).  Otherwise it
\* is an arbitrary word.
newValuePtr(v) ==
  IF checkValueResult /\ CanAddr(v) THEN {UnsafeAddr(v)} ELSE Addrs

\* mutant: with UnsafeReadDirectPtr no address is read at all
getDirectPointerUnsafeNull(opts, v) ==
  CASE opts.UnsafeReadDirectPtr -> {zeroPointer}
    [] CanAddr(v) -> {UnsafeAddr(v)}
    [] OTHER -> {zeroPointer}
\* mutant: without UnsafeReadDirectPtr no address is read at all
getDirectPointerSafeNull(opts, v) ==
  CASE opts.UnsafeReadDirectPtr -> newValuePtr(v)
    [] OTHER -> {zeroPointer}
\* Walker.getDirectPointer: the set of addresses the call can return
getDirectPointer(opts, v) ==
  CASE opts.UnsafeReadDirectPtr -> newValuePtr(v)
    [] CanAddr(v) -> {UnsafeAddr(v)}
    [] OTHER -> {zeroPointer}

\* mutant: newWalkerInfo asks getDirectPointer whatever CanAddr() answers
newWalkerInfoUnguarded(opts, v, parent, id) ==
  { [id |-> id, Value |-> v, Parent |-> parent, DirectPointer |-> dp,
     IsVisited |-> FALSE, isMapValue |-> FALSE, isMapKey |-> FALSE,
     IsFlat |-> FALSE, IsStructField |-> FALSE]
    : dp \in getDirectPointer(opts, v) }
\* mutant: newWalkerInfo marks the descriptor as a map key
newWalkerInfoAsMapKey(opts, v, parent, id) ==
  { [id |-> id, Value |-> v, Parent |-> parent, DirectPointer |-> dp,
     IsVisited |-> FALSE, isMapValue |-> FALSE, isMapKey |-> TRUE,
     IsFlat |-> FALSE, IsStructField |-> FALSE]
    : dp \in (IF CanAddr(v) THEN getDirectPointer(opts, v) ELSE {zeroPointer}) }
\* mutant: newWalkerInfo does not set Parent
newWalkerInfoWithoutParent(opts, v, parent, id) ==
  { [id |-> id, Value |-> v, Parent |-> 0, DirectPointer |-> dp,
     IsVisited |-> FALSE, isMapValue |-> FALSE, isMapKey |-> FALSE,
     IsFlat |-> FALSE, IsStructField |-> FALSE]
    : dp \in (IF CanAddr(v) THEN getDirectPointer(opts, v) ELSE {zeroPointer}) }
\* Walker.newWalkerInfo: the descriptors the call can build; id names the
\* freshly allocated WalkInfo, parent the WalkInfo that Parent points to.
\* IsFlat and IsStructField are fields of the older variant's WalkInfo
\* (objwalker.go:352-380), which the current WalkInfo (29-46) no longer has;
\* they are kept beside the current fields and set where the older variant
\* sets them, the two variants walking the same nodes in the same order.
newWalkerInfo(opts, v, parent, id) ==
  { [id |-> id, Value |-> v, Parent |-> parent, DirectPointer |-> dp,
     IsVisited |-> FALSE, isMapValue |-> FALSE, isMapKey |-> FALSE,
     IsFlat |-> FALSE, IsStructField |-> FALSE]
    : dp \in (IF CanAddr(v) THEN getDirectPointer(opts, v) ELSE {zeroPointer}) }

\* mutant: the detector never flags a revisit
loopDetectorInfoNeverFlags(visited, info) == info
\* mutant: the detector compares the address alone, whatever the type
loopDetectorInfoByAddress(visited, info) ==
  IF info.DirectPointer # zeroPointer
     /\ \E p \in visited : p[1] = info.DirectPointer
  THEN [info EXCEPT !.IsVisited = TRUE]
  ELSE info
\* walkerState.loopDetector: the descriptor after the call
loopDetectorInfo(visited, info) ==
  IF info.DirectPointer # zeroPointer
     /\ <<info.DirectPointer, Heap[info.Value].type>> \in visited
  THEN [info EXCEPT !.IsVisited = TRUE]
  ELSE info

\* mutant: the detector keeps the pair it has seen last and no other
loopDetectorVisitedLastOnly(visited, info) ==
  IF info.DirectPointer # zeroPointer
  THEN {<<info.DirectPointer, Heap[info.Value].type>>}
  ELSE visited
\* mutant: the detector records the values without children only
loopDetectorVisitedOnlyLeaves(visited, info) ==
  IF info.DirectPointer # zeroPointer /\ Heap[info.Value].kind \notin ContainerKinds
  THEN visited \cup {<<info.DirectPointer, Heap[info.Value].type>>}
  ELSE visited
\* mutant: the detector records nothing
loopDetectorVisitedForgets(visited, info) == visited
\* mutant: the detector records the null address as well
loopDetectorVisitedRecordsNull(visited, info) ==
  visited \cup {<<info.DirectPointer, Heap[info.Value].type>>}
\* walkerState.loopDetector: the visited table after the call
loopDetectorVisited(visited, info) ==
  IF info.DirectPointer # zeroPointer
  THEN visited \cup {<<info.DirectPointer, Heap[info.Value].type>>}
  ELSE visited

\* mutant: kindRoute has no case for reflect.Invalid, as in the older variant
\* of walkValue (objwalker.go:446-493), and the default branch takes it
kindRouteWithoutInvalid(kind) ==
  CASE kind = "Array" -> "walkArray"
    [] kind \in {"Interface", "Ptr"} -> "walkPtr"
    [] kind = "Map" -> "walkMap"
    [] kind = "Slice" -> "walkSlice"
    [] kind \in SimpleKinds -> "walkSimple"
    [] kind = "Struct" -> "walkStruct"
    [] OTHER -> ErrUnknownKind
\* walkerState.kindRoute: the handler chosen for a kind, or the error returned
kindRoute(kind) ==
  CASE kind = "Invalid" -> errInvalidKind
    [] kind = "Array" -> "walkArray"
    [] kind \in {"Interface", "Ptr"} -> "walkPtr"
    [] kind = "Map" -> "walkMap"
    [] kind = "Slice" -> "walkSlice"
    [] kind \in SimpleKinds -> "walkSimple"
    [] kind = "Struct" -> "walkStruct"
    [] OTHER -> ErrUnknownKind

\* the kinds the older variant of walkValue routes to walkFlat (467-471);
\* String, Chan and Func have handlers of their own there
FlatKinds == {"Bool", "Int", "Uintptr", "Float64", "Complex128", "UnsafePointer"}

\* mutant: strings are handled by walkFlat as well
walkFlatAlsoString(info) ==
  IF Heap[info.Value].kind \in FlatKinds \cup {"String"}
  THEN [info EXCEPT !.IsFlat = TRUE] ELSE info
\* the descriptor the handler passes to the callback: the older variant's
\* walkFlat (495-498) sets IsFlat on it, the other handlers pass it as it is
walkFlat(info) ==
  IF Heap[info.Value].kind \in FlatKinds
  THEN [info EXCEPT !.IsFlat = TRUE] ELSE info

Handlers == {"walkArray", "walkPtr", "walkMap", "walkSlice", "walkSimple", "walkStruct"}

\* kindRoute called on its own, as TestWalker_KindRoute calls it: the kinds
\* passed are reflect.Invalid and reflect.Kind(math.MaxUint), which no
\* reflect.Value reached from a Go value has
NoKind == "none"
UnknownKind == "Kind(MaxUint)"
RoutedKinds == {"Invalid", UnknownKind}

\* errors.Is(err, ErrUnknownKind): ErrUnknownKind itself or an error wrapping it
IsErrUnknownKind(err) == err \in {"ErrUnknownKind", "wrapped(ErrUnknownKind)"}

\* the walks of this Walker that have returned: none yet
NoWalk == <<>>

\* no second goroutine is in Walk
NoGoroutine == [pc |-> "none"]

(***************************************************************************)
(* The call stack of walkValue.  A frame is one walkValue(info) call and   *)
(* the handler kindRoute tail-calls from it:                               *)
(*   pc = "enter"     walkValue is entered                                 *)
(*   pc = "callback"  handler fn is about to call state.callback(info)     *)
(*   pc = "item"      waiting for walkValue of item/field i                *)
(*   pc = "elem"      waiting for walkValue of the pointee                 *)
(*   pc = "key"/"val" waiting for walkValue of the key/value of entry i    *)
(* iter holds the entries the map iterator has not yielded yet.            *)
(***************************************************************************)
NoRet == "none"

NewFrame(info) == [info |-> info, fn |-> "walkValue", pc |-> "enter", i |-> 0, iter |-> {}]

Top == stack[Len(stack)]

\* return err from the top frame; the root frame's return is Walk's
Return(err) ==
  /\ stack' = SubSeq(stack, 1, Len(stack) - 1)
  /\ nextId' = nextId
  /\ IF Len(stack) = 1
     THEN pc' = "done" /\ result' = err /\ ret' = NoRet
     ELSE pc' = pc /\ result' = result /\ ret' = err

\* mutant: the map value's descriptor gets the key's flag as well
CallWalkValueKeyFlagOnValue(frame, v, asKey, asValue) ==
  /\ \E info \in newWalkerInfo(state, v, frame.info.id, nextId) :
       stack' = Append([stack EXCEPT ![Len(stack)] = frame],
                       NewFrame([info EXCEPT !.isMapKey = asKey \/ asValue,
                                   !.isMapValue = asValue,
                                   !.IsStructField = frame.fn = "walkStruct"]))
  /\ nextId' = nextId + 1
  /\ ret' = NoRet
  /\ UNCHANGED <<pc, result>>
\* mutant: the descendants of a struct field inherit its IsStructField flag
CallWalkValueFieldFlagInherited(frame, v, asKey, asValue) ==
  /\ \E info \in newWalkerInfo(state, v, frame.info.id, nextId) :
       stack' = Append([stack EXCEPT ![Len(stack)] = frame],
                       NewFrame([info EXCEPT !.isMapKey = asKey, !.isMapValue = asValue,
                                   !.IsStructField = frame.fn = "walkStruct"
                                                     \/ frame.info.IsStructField]))
  /\ nextId' = nextId + 1
  /\ ret' = NoRet
  /\ UNCHANGED <<pc, result>>
\* the top frame becomes frame and calls walkValue on a new descriptor of v;
\* walkMap sets the map flags, the older variant's walkStruct (623-641) sets
\* IsStructField on the descriptor of each field
CallWalkValue(frame, v, asKey, asValue) ==
  /\ \E info \in newWalkerInfo(state, v, frame.info.id, nextId) :
       stack' = Append([stack EXCEPT ![Len(stack)] = frame],
                       NewFrame([info EXCEPT !.isMapKey = asKey, !.isMapValue = asValue,
                                   !.IsStructField = frame.fn = "walkStruct"]))
  /\ nextId' = nextId + 1
  /\ ret' = NoRet
  /\ UNCHANGED <<pc, result>>

\* what an invocation of the callback f writes to the storage of v: f is one
\* function, in a repeated walk its n-th invocation writes what the n-th
\* invocation of the walk before wrote
callbackWrite(v) ==
  IF prev # NoWalk /\ Len(calls) < Len(prev[Len(prev)].calls)
  THEN IF prev[Len(prev)].calls[Len(calls) + 1].mut \in Writable(v)
       THEN {prev[Len(prev)].calls[Len(calls) + 1].mut}
       ELSE {NoWrite}
  ELSE Writable(v)

\* state.callback(info) writing wr and returning r: the invocation is
\* appended to calls, the storage is as the callback left it
Invoke(r) ==
  \E wr \in callbackWrite(Top.info.Value) :
    /\ calls' = Append(calls, [info |-> Top.info, res |-> r, mut |-> wr])
    /\ mem' = Write(mem, Top.info.Value, wr)

AtCallback(fn) == pc = "walking" /\ stack # <<>> /\ Top.fn = fn /\ Top.pc = "callback"
Returned(fn, at) == pc = "walking" /\ stack # <<>> /\ Top.fn = fn /\ Top.pc = at /\ ret # NoRet

(***************************************************************************)
(* Configuration and entry point                                           *)
(***************************************************************************)
Init ==
  /\ w = New
  /\ checkValueResult \in BOOLEAN
  /\ pc = "config"
  /\ root = NilRoot
  /\ state = newWalkerState(New)
  /\ stack = <<>>
  /\ ret = NoRet
  /\ result = NoError
  /\ calls = <<>>
  /\ nextId = 1
  /\ routed = NoKind
  /\ prev = NoWalk
  /\ mem = NoMutation
  /\ other = NoGoroutine

\* the Walker is not in a walk: it is fresh, or a Walk has returned and
\* another may follow
Idle ==
  /\ other = NoGoroutine
  /\ pc = "config" \/ (pc = "done" /\ Len(prev) + 1 < MaxWalks)

\* the setters are called on a fresh Walker; the addressing policy is also
\* changed between the first Walk and the second
WithUnsafeReadDirectPtr(val) ==
  /\ Idle /\ prev = NoWalk
  /\ w' = [w EXCEPT !.UnsafeReadDirectPtr = val]
  /\ UNCHANGED <<routed, prev, checkValueResult, pc, root, state, stack, ret, result, calls, nextId, mem, other>>

\* mutant: the setter writes the other toggle
WithLoopProtectionSetsUnsafe(val) ==
  /\ pc = "config"
  /\ w' = [w EXCEPT !.UnsafeReadDirectPtr = val]
  /\ UNCHANGED <<routed, prev, checkValueResult, pc, root, state, stack, ret, result, calls, nextId, mem, other>>

WithLoopProtection(val) ==
  /\ pc = "config"
  /\ w' = [w EXCEPT !.LoopProtection = val]
  /\ UNCHANGED <<routed, prev, checkValueResult, pc, root, state, stack, ret, result, calls, nextId, mem, other>>

\* mutant: walk has no test for a nil v, so reflect.ValueOf(nil), the invalid
\* Value, is dispatched by kindRoute
walkChecksWithoutNil(st, v, check) ==
  IF st.UnsafeReadDirectPtr /\ ~check THEN ErrBadInternalReflectValueDetected
  ELSE IF v = NilRoot THEN errInvalidKind
  ELSE NoRet
\* mutant: walk tests v for nil before it looks at the self-check
walkChecksNilFirst(st, v, check) ==
  IF v = NilRoot THEN NoError
  ELSE IF st.UnsafeReadDirectPtr /\ ~check THEN ErrBadInternalReflectValueDetected
  ELSE NoRet
\* mutant: walk ignores the result of the self-check
walkChecksWithoutSelfCheck(st, v, check) ==
  IF v = NilRoot THEN NoError ELSE NoRet
\* walkerState.walk(v, checkValueResult) before its call of walkValue: the
\* error it returns at once, or NoRet when it goes on to walkValue
walkChecks(st, v, check) ==
  IF st.UnsafeReadDirectPtr /\ ~check THEN ErrBadInternalReflectValueDetected
  ELSE IF v = NilRoot THEN NoError
  ELSE NoRet

\* the record of the walk that has just returned
LastWalk ==
  [root |-> root, calls |-> calls, result |-> result,
   opts |-> [LoopProtection |-> state.LoopProtection,
             UnsafeReadDirectPtr |-> state.UnsafeReadDirectPtr]]

\* the callback f given to New, as the results an invocation can return.  f
\* is one function for all walks of the Walker: in a repeated walk it answers
\* its n-th invocation as it answered the n-th invocation of the walk before.
callback ==
  IF prev # NoWalk /\ Len(calls) < Len(prev[Len(prev)].calls)
  THEN {prev[Len(prev)].calls[Len(calls) + 1].res}
  ELSE CallbackResults

\* the arguments of Walk: any root for the first walk of the Walker, the same
\* root again for a repeated walk
WalkArgs == IF pc = "done" THEN {root} ELSE Roots

\* mutant: the visited table belongs to the Walker and is carried from one
\* Walk to the next, as in the older variant (objwalker.go:426-444)
WalkSharingVisited(v) ==
  /\ Idle
  /\ prev' = IF pc = "done" THEN Append(prev, LastWalk) ELSE prev
  /\ root' = v
  /\ state' = [newWalkerState(w) EXCEPT !.visited = state.visited]
  /\ calls' = <<>>
  /\ ret' = NoRet
  /\ IF walkChecks(newWalkerState(w), v, checkValueResult) # NoRet
     THEN /\ pc' = "done"
          /\ result' = walkChecks(newWalkerState(w), v, checkValueResult)
          /\ stack' = <<>>
          /\ nextId' = 1
     ELSE /\ pc' = "walking"
          /\ result' = NoError
          /\ \E info \in newWalkerInfo(newWalkerState(w), v, 0, 1) :
               stack' = <<NewFrame(info)>>
          /\ nextId' = 2
  /\ UNCHANGED <<routed, w, checkValueResult, mem, other>>

\* Walker.Walk(v) with walkerState.walk(v, checkValue()) up to its call of
\* walkValue.  Every Walk makes its own walkerState; the descriptors of a walk
\* are numbered from 1, and calls records the invocations of this walk.
Walk(v) ==
  /\ Idle
  /\ prev' = IF pc = "done" THEN Append(prev, LastWalk) ELSE prev
  /\ root' = v
  /\ state' = newWalkerState(w)
  /\ calls' = <<>>
  /\ ret' = NoRet
  /\ IF walkChecks(newWalkerState(w), v, checkValueResult) # NoRet
     THEN /\ pc' = "done"
          /\ result' = walkChecks(newWalkerState(w), v, checkValueResult)
          /\ stack' = <<>>
          /\ nextId' = 1
     ELSE /\ pc' = "walking"
          /\ result' = NoError
          /\ \E info \in newWalkerInfo(newWalkerState(w), v, 0, 1) :
               stack' = <<NewFrame(info)>>
          /\ nextId' = 2
  /\ UNCHANGED <<routed, w, checkValueResult, mem, other>>

\* state.kindRoute(kind, &WalkInfo{}) on a fresh walkerState: an error is
\* returned at once, no handler runs
kindRouteCall(kind) ==
  /\ pc = "config"
  /\ kindRoute(kind) \notin Handlers
  /\ routed' = kind
  /\ state' = newWalkerState(w)
  /\ pc' = "routed"
  /\ result' = kindRoute(kind)
  /\ UNCHANGED <<prev, w, checkValueResult, root, stack, ret, calls, nextId, mem, other>>

(***************************************************************************)
(* walkValue and the handlers                                              *)
(***************************************************************************)
\* mutant: a revisit is suppressed whatever the LoopProtection setting
SuppressedAlways(st, info) == info.IsVisited
\* mutant: walkValue goes on to kindRoute whatever the detector found
SuppressedNever(st, info) == FALSE
\* walkValue's test after loopDetector: the node is neither reported nor expanded
Suppressed(st, info) == info.IsVisited /\ st.LoopProtection

walkValue ==
  /\ pc = "walking" /\ stack # <<>> /\ Top.pc = "enter"
  /\ Len(stack) <= MaxDepth
  /\ LET info == loopDetectorInfo(state.visited, Top.info)
         route == kindRoute(Heap[info.Value].kind)
     IN /\ state' = [state EXCEPT !.visited = loopDetectorVisited(state.visited, Top.info)]
        /\ IF Suppressed(state, info)
           THEN Return(NoError)
           ELSE IF route \notin Handlers
           THEN Return(route)
           ELSE /\ stack' = [stack EXCEPT ![Len(stack)] =
                               [@ EXCEPT !.info = walkFlat(info), !.fn = route,
                                         !.pc = "callback"]]
                /\ UNCHANGED <<pc, ret, result, nextId>>
  /\ UNCHANGED <<routed, prev, w, checkValueResult, root, calls, mem, other>>

\* the recursion is deeper than the goroutine stack allows: the runtime
\* stops the program with a stack overflow and Walk never returns
stackOverflow ==
  /\ pc = "walking" /\ stack # <<>> /\ Top.pc = "enter"
  /\ Len(stack) > MaxDepth
  /\ pc' = "crashed"
  /\ UNCHANGED <<routed, prev, w, checkValueResult, root, state, stack, ret, result, calls, nextId, mem, other>>

\* mutant: walkSimple treats the skip signal as the container handlers do
walkSimpleCatchesSkip ==
  /\ AtCallback("walkSimple")
  /\ \E r \in callback :
       Invoke(r) /\ Return(IF IsErrSkip(r) THEN NoError ELSE r)
  /\ UNCHANGED <<routed, prev, w, checkValueResult, root, state, other>>

\* mutant: walkSimple drops the callback's result
walkSimpleReturnsNil ==
  /\ AtCallback("walkSimple")
  /\ \E r \in callback : Invoke(r) /\ Return(NoError)
  /\ UNCHANGED <<routed, prev, w, checkValueResult, root, state, other>>

walkSimple ==
  /\ AtCallback("walkSimple")
  /\ \E r \in callback : Invoke(r) /\ Return(r)
  /\ UNCHANGED <<routed, prev, w, checkValueResult, root, state, other>>

\* mutant: the items are those the value had before the callback wrote it
IndexLoopStale(i) ==
  IF i < ValueLen(Top.info.Value)
  THEN CallWalkValue([Top EXCEPT !.pc = "item", !.i = i], Index(Top.info.Value, i),
                     FALSE, FALSE)
  ELSE Return(NoError)
\* the for loop of walkArray / walkSlice / walkStruct at index i: Len() and
\* Index(i) read info.Value after the callback has returned
IndexLoop(i) ==
  \E v \in {Top.info.Value}, j \in {i} :
    IF j < ValueLen(v)'
    THEN \E item \in {Index(v, j)'} :
           CallWalkValue([Top EXCEPT !.pc = "item", !.i = j], item, FALSE, FALSE)
    ELSE Return(NoError)

\* mutant: the skip signal is returned like any other error
CallbackErrorNoCatch(err) == Return(err)
\* mutant: a container handler returns success whatever its callback returned
CallbackErrorSwallowed(err) == Return(NoError)
\* what the five container handlers do with the callback's error
CallbackError(err) == Return(IF IsErrSkip(err) THEN NoError ELSE err)

\* walkArray / walkSlice / walkStruct: callback, then the items in index order
walkIndexed(fn) ==
  \/ /\ AtCallback(fn)
     /\ \E r \in callback :
          /\ Invoke(r)
          /\ IF r # NoError THEN CallbackError(r) ELSE IndexLoop(0)
     /\ UNCHANGED <<routed, prev, w, checkValueResult, root, state, other>>
  \/ /\ Returned(fn, "item")
     /\ UNCHANGED mem
     /\ IF ret # NoError THEN Return(ret) ELSE IndexLoop(Top.i + 1)
     /\ UNCHANGED <<routed, prev, w, checkValueResult, root, state, calls, other>>

walkArray == walkIndexed("walkArray")

walkSlice == walkIndexed("walkSlice")

walkStruct == walkIndexed("walkStruct")

\* mutant: walkPtr takes Elem() without the IsNil() test
walkPtrWithoutNilTest ==
  \/ /\ AtCallback("walkPtr")
     /\ \E r \in callback :
          /\ Invoke(r)
          /\ IF r # NoError THEN CallbackError(r)
             ELSE \E v \in {Top.info.Value} :
                    \E elem \in {Elem(v)'} :
                      CallWalkValue([Top EXCEPT !.pc = "elem"], elem, FALSE, FALSE)
     /\ UNCHANGED <<routed, prev, w, checkValueResult, root, state, other>>
  \/ /\ Returned("walkPtr", "elem")
     /\ Return(ret)
     /\ UNCHANGED <<routed, prev, w, checkValueResult, root, state, calls, mem, other>>

walkPtr ==
  \/ /\ AtCallback("walkPtr")
     /\ \E r \in callback :
          /\ Invoke(r)
          /\ IF r # NoError THEN CallbackError(r)
             ELSE \E v \in {Top.info.Value} :
                    IF IsNil(v)' THEN Return(NoError)
                    ELSE \E elem \in {Elem(v)'} :
                           CallWalkValue([Top EXCEPT !.pc = "elem"], elem, FALSE, FALSE)
     /\ UNCHANGED <<routed, prev, w, checkValueResult, root, state, other>>
  \/ /\ Returned("walkPtr", "elem")
     /\ Return(ret)
     /\ UNCHANGED <<routed, prev, w, checkValueResult, root, state, calls, mem, other>>

\* iterator.Next(): any entry not yielded yet, then walkValue of its key
MapNext(iter) ==
  IF iter = {} THEN Return(NoError)
  ELSE \E e \in iter :
         CallWalkValue([Top EXCEPT !.pc = "key", !.i = e, !.iter = iter \ {e}],
                       MapKey(Top.info.Value, e), TRUE, FALSE)

\* mutant: the key loop never takes the continue branch
KeySkippedNever(err) == FALSE
\* mutant: the key loop continues after any error of the key's walk
KeySkippedOnAnyError(err) == TRUE
\* walkMap's test of the error returned by walkValue(keyInfo)
KeySkipped(err) == IsErrSkip(err)

walkMap ==
  \/ /\ AtCallback("walkMap")
     /\ \E r \in callback :
          /\ Invoke(r)
          /\ IF r # NoError THEN CallbackError(r)
             ELSE \E v \in {Top.info.Value} :
                    IF IsNil(v)' THEN Return(NoError)
                    ELSE MapNext(DOMAIN Heap[v].entries)
     /\ UNCHANGED <<routed, prev, w, checkValueResult, root, state, other>>
  \/ /\ Returned("walkMap", "key")
     /\ IF ret # NoError
        THEN IF KeySkipped(ret) THEN MapNext(Top.iter) ELSE Return(ret)
        ELSE CallWalkValue([Top EXCEPT !.pc = "val"], MapVal(Top.info.Value, Top.i),
                           FALSE, TRUE)
     /\ UNCHANGED <<routed, prev, w, checkValueResult, root, state, calls, mem, other>>
  \/ /\ Returned("walkMap", "val")
     /\ IF ret # NoError THEN Return(ret) ELSE MapNext(Top.iter)
     /\ UNCHANGED <<routed, prev, w, checkValueResult, root, state, calls, mem, other>>

\* the roots two goroutines walk at the same time
ConcurrentRoots == {5, 26, 61}

\* what a goroutine in Walk owns: its walkerState, its walkValue calls, the
\* invocations it has made of the callback, its result
Context ==
  [pc |-> pc, root |-> root, state |-> state, stack |-> stack, ret |-> ret,
   result |-> result, calls |-> calls, nextId |-> nextId]

\* go Walk(v): while the second Walk of v has just been entered, a second
\* goroutine calls Walk(v) on the same Walker; it makes its own walkerState from the
\* Walker (objwalker.go:100-102) and waits to be scheduled.  The callback
\* keeps no state of its own: it answers the n-th invocation of either
\* goroutine as it answered the n-th invocation of the walk before.
goWalk ==
  /\ pc = "walking" /\ other = NoGoroutine /\ Len(prev) = 1
  /\ root \in ConcurrentRoots /\ mem = NoMutation
  /\ prev[Len(prev)].root = root
  /\ prev[Len(prev)].opts = [LoopProtection |-> w.LoopProtection,
                              UnsafeReadDirectPtr |-> w.UnsafeReadDirectPtr]
  /\ calls = <<>> /\ Len(stack) = 1 /\ Top.pc = "enter"
  /\ \E info \in newWalkerInfo(newWalkerState(w), root, 0, 1) :
       other' = [pc |-> "walking", root |-> root, state |-> newWalkerState(w),
                 stack |-> <<NewFrame(info)>>, ret |-> NoRet, result |-> NoError,
                 calls |-> <<>>, nextId |-> 2]
  /\ UNCHANGED <<w, checkValueResult, pc, root, state, stack, ret, result, calls,
                 nextId, routed, prev, mem>>

\* mutant: the visited table belongs to the Walker, as in the older variant
\* (objwalker.go:405-431): the goroutine scheduled works on the table the
\* other has written
SwitchSharingVisited ==
  /\ other # NoGoroutine /\ pc \in {"walking", "done"} /\ other.pc = "walking"
  /\ other' = Context
  /\ pc' = other.pc /\ root' = other.root
  /\ state' = [other.state EXCEPT !.visited = state.visited]
  /\ stack' = other.stack /\ ret' = other.ret /\ result' = other.result
  /\ calls' = other.calls /\ nextId' = other.nextId
  /\ UNCHANGED <<w, checkValueResult, routed, prev, mem>>

\* the scheduler lets the other goroutine run: at any point of a walk, and
\* when the Walk of the running goroutine has returned
Switch ==
  /\ other # NoGoroutine /\ pc \in {"walking", "done"} /\ other.pc = "walking"
  /\ other' = Context
  /\ pc' = other.pc /\ root' = other.root /\ state' = other.state
  /\ stack' = other.stack /\ ret' = other.ret /\ result' = other.result
  /\ calls' = other.calls /\ nextId' = other.nextId
  /\ UNCHANGED <<w, checkValueResult, routed, prev, mem>>

\* a step of the goroutine that runs
Step ==
  \/ walkValue
  \/ stackOverflow
  \/ walkSimple
  \/ walkArray
  \/ walkPtr
  \/ walkMap
  \/ walkSlice
  \/ walkStruct

Next ==
  \/ \E val \in BOOLEAN : WithUnsafeReadDirectPtr(val)
  \/ \E val \in BOOLEAN : WithLoopProtection(val)
  \/ \E v \in WalkArgs : Walk(v)
  \/ \E kind \in RoutedKinds : kindRouteCall(kind)
  \/ goWalk
  \/ Switch
  \/ Step

Spec == Init /\ [][Next]_vars

\* the walk is sequential code: a step that can be taken is taken; of two
\* goroutines the one that runs takes its steps
FairSpec == Spec /\ WF_vars(Next) /\ WF_vars(Step)

TypeOK ==
  /\ pc \in {"config", "walking", "done", "crashed", "routed"}
  /\ Len(prev) < MaxWalks
  /\ routed \in RoutedKinds \cup {NoKind}
  /\ (pc = "routed") = (routed # NoKind)
  /\ root \in Roots
  /\ ret \in {NoRet, NoError, ErrSkip, WrappedErrSkip, errTest, errInvalidKind, ErrUnknownKind}
  /\ Len(stack) <= MaxDepth + 1
  /\ (pc = "done" => stack = <<>>)
  /\ nextId \in Nat
  /\ mem.nilled \subseteq Mutable /\ mem.ints \subseteq Mutable
  /\ DOMAIN mem.kids \subseteq Mutable
  /\ other # NoGoroutine =>
       /\ other.pc \in {"walking", "done"} /\ other.root = root
       /\ pc \in {"walking", "done", "crashed"}

(***************************************************************************)
(* Reading the record of callback invocations                              *)
(***************************************************************************)
\* the step is one of the goroutine that runs: the scheduler does not switch
\* and no goroutine is started
SameGoroutine == other' = other

Done == pc = "done"

Calls == DOMAIN calls
KindAt(k) == Heap[calls[k].info.Value].kind
TypeAt(k) == Heap[calls[k].info.Value].type
IsContainerAt(k) == KindAt(k) \in ContainerKinds
IsLeafAt(k) == KindAt(k) \in SimpleKinds
AllNil == \A k \in Calls : calls[k].res = NoError

\* the invocation that received the descriptor Parent points to (0: none)
ParentPos(k) ==
  IF \E j \in Calls : calls[j].info.id = calls[k].info.Parent
  THEN CHOOSE j \in Calls : calls[j].info.id = calls[k].info.Parent
  ELSE 0

\* invocation a received an ancestor of the descriptor of invocation k
RECURSIVE IsAncestor(_, _)
IsAncestor(a, k) ==
  /\ ParentPos(k) # 0
  /\ (ParentPos(k) = a \/ IsAncestor(a, ParentPos(k)))

\* the index of the node of invocation k among its parent's items or fields
ChildIndex(k) ==
  CHOOSE i \in 0 .. 10 :
    /\ i < Len(Kids(calls[ParentPos(k)].info.Value))
    /\ Kids(calls[ParentPos(k)].info.Value)[i + 1] = calls[k].info.Value

\* the entry of the parent map that the node of invocation k belongs to
EntryOf(k) ==
  CHOOSE e \in DOMAIN Heap[calls[ParentPos(k)].info.Value].entries :
    IF calls[k].info.isMapKey
    THEN Heap[calls[ParentPos(k)].info.Value].entries[e][1] = calls[k].info.Value
    ELSE Heap[calls[ParentPos(k)].info.Value].entries[e][2] = calls[k].info.Value

IndexedKinds == {"Array", "Slice", "Struct"}

\* the nodes of the value graph below a set of nodes
Children(n) ==
  {Kids(n)[i] : i \in DOMAIN Kids(n)}
  \cup {Heap[n].entries[e][1] : e \in DOMAIN Heap[n].entries}
  \cup {Heap[n].entries[e][2] : e \in DOMAIN Heap[n].entries}

RECURSIVE Closure(_)
Closure(S) ==
  LET T == S \cup UNION {Children(n) : n \in S}
  IN IF T = S THEN S ELSE Closure(T)

\* every node of the value rooted at r
NodesOf(r) == IF r = NilRoot THEN {} ELSE Closure({r})

\* no node of the value rooted at r is reachable from itself
Acyclic(r) == \A n \in NodesOf(r) : n \notin Closure(Children(n))

\* the startup self-check did not stop the walk (walk, objwalker.go:156-158)
SelfCheckPassed == ~(state.UnsafeReadDirectPtr /\ ~checkValueResult)

DefaultSettings == state.LoopProtection /\ ~state.UnsafeReadDirectPtr

\* the item or field after the one of invocation k was walked: its callback
\* was invoked, or it was suppressed as a revisit of a node reported earlier
NextSiblingWalked(k) ==
  LET p == ParentPos(k)
      pv == calls[p].info.Value
      s == Kids(pv)[ChildIndex(k) + 2]
  IN \/ \E m \in Calls : m > k /\ calls[m].info.Parent = calls[p].info.id
                         /\ calls[m].info.Value = s
     \/ /\ state.LoopProtection /\ CanAddr(s)
        /\ \E m \in 1 .. k : /\ calls[m].info.DirectPointer = Heap[s].addr
                             /\ TypeAt(m) = Heap[s].type

HasNextSibling(k) ==
  /\ ParentPos(k) # 0
  /\ KindAt(ParentPos(k)) \in IndexedKinds
  /\ ChildIndex(k) + 1 < Len(Kids(calls[ParentPos(k)].info.Value))

(***************************************************************************)
(* Claims                                                                  *)
(***************************************************************************)

\* C1: walking an acyclic value with default settings and a callback that
\* always returns nil invokes the callback exactly once for every node of the
\* value: the root, every item, field, map key, map value and pointee.
C1_ExactlyOncePerNode ==
  (Done /\ root # NilRoot /\ DefaultSettings /\ Acyclic(root) /\ AllNil)
    => \A n \in NodesOf(root) :
         Cardinality({k \in Calls : calls[k].info.Value = n}) = 1

\* C2: the callback sequence is pre-order: the root is first, a node's parent
\* was reported before it, items and fields of one parent are reported in
\* index order, and everything reported between a node and one of its
\* descendants is a descendant of that node too (the subtree of child i is
\* complete before child i+1 starts).
C2_PreOrder ==
  \A k \in Calls :
    /\ (calls[k].info.Parent = 0) = (k = 1)
    /\ calls[k].info.Parent # 0 => ParentPos(k) \in 1 .. (k - 1)
    /\ \A j \in 1 .. (k - 1) :
         (/\ calls[k].info.Parent # 0
          /\ calls[j].info.Parent = calls[k].info.Parent
          /\ KindAt(ParentPos(k)) \in IndexedKinds)
           => ChildIndex(j) < ChildIndex(k)
    /\ \A a \in 1 .. (k - 1) :
         IsAncestor(a, k) => \A m \in (a + 1) .. k : IsAncestor(a, m)

C2_Witness ==
  /\ Done /\ root = 38 /\ AllNil /\ Len(calls) = 5
  /\ [k \in 1 .. 5 |-> calls[k].info.Value] = <<38, 39, 40, 41, 42>>

\* C3: a map value is reported right after the subtree of its own key: the
\* key of the same entry of the same map was reported before it, and every
\* invocation between the two is for a descendant of that key.
C3_KeyImmediatelyBeforeValue ==
  \A k \in Calls :
    calls[k].info.isMapValue =>
      \E j \in 1 .. (k - 1) :
        /\ calls[j].info.isMapKey
        /\ calls[j].info.Parent = calls[k].info.Parent
        /\ EntryOf(j) = EntryOf(k)
        /\ \A m \in (j + 1) .. (k - 1) : IsAncestor(j, m)

C3_Witness ==
  /\ Done /\ root = 13 /\ AllNil /\ Len(calls) = 7
  /\ calls[2].info.isMapKey /\ KindAt(2) = "Array" /\ calls[4].info.isMapValue

\* C4: with cycle protection the callback is invoked at most once for an
\* (address, type) pair, and for s.P = &s walked as &s with a callback that
\* returns nil it is invoked exactly 3 times (the root pointer, the struct,
\* the field pointer) and Walk returns nil (the walk being one that the
\* startup self-check of unsafe addressing did not refuse).
C4_SelfReferenceProtected ==
  /\ state.LoopProtection =>
       \A j, k \in Calls :
         (/\ j # k
          /\ calls[j].info.DirectPointer # zeroPointer
          /\ calls[j].info.DirectPointer = calls[k].info.DirectPointer)
           => TypeAt(j) # TypeAt(k)
  /\ (Done /\ root = 5 /\ state.LoopProtection /\ SelfCheckPassed /\ AllNil)
       => /\ Len(calls) = 3
          /\ [k \in 1 .. 3 |-> calls[k].info.Value] = <<5, 6, 7>>
          /\ result = NoError

C4_Witness ==
  /\ Done /\ root = 5 /\ state.LoopProtection /\ AllNil
  /\ Len(calls) = 3 /\ result = NoError
  /\ <<100, "S">> \in state.visited

\* C5: with cycle protection enabled every walk that starts also ends
\* (Walk returns), whatever the value graph and the callback.
C5_WalkTerminates == (pc = "walking" /\ state.LoopProtection) ~> Done

\* C6: with cycle protection disabled every descriptor built is passed to
\* the callback, revisits included, and when the callback returns a non-skip
\* error on its N-th invocation after returning nil N-1 times, Walk returns
\* that error and the callback was invoked exactly N times.
C6_UnprotectedRunsUntilCallbackStops ==
  (~state.LoopProtection /\ SelfCheckPassed) =>
    /\ nextId - 1 = Len(calls)
         + (IF stack # <<>> /\ Top.pc \in {"enter", "callback"} THEN 1 ELSE 0)
    /\ \A n \in Calls :
         (/\ Done
          /\ calls[n].res = errTest
          /\ \A k \in 1 .. (n - 1) : calls[k].res = NoError)
           => result = errTest /\ Len(calls) = n

C6_Witness ==
  /\ Done /\ ~state.LoopProtection /\ root = 5
  /\ Len(calls) = 7 /\ result = errTest
  /\ calls[7].res = errTest /\ calls[7].info.IsVisited
  /\ \A k \in 1 .. 6 : calls[k].res = NoError

\* C7: when the callback returns the skip signal at a container node no
\* descendant of the node is reported, the skip counts as success (a walk
\* that ends with it returns nil) and the parent goes on with the next item
\* or field.
C7_SkipAtContainer ==
  \A k \in Calls :
    (IsContainerAt(k) /\ IsErrSkip(calls[k].res)) =>
      /\ \A m \in Calls : ~IsAncestor(k, m)
      /\ (Done /\ k = Len(calls)) => result = NoError
      /\ (Done /\ HasNextSibling(k)) => NextSiblingWalked(k)

C7_Witness ==
  /\ Done /\ root = 31 /\ Len(calls) >= 3 /\ result = NoError
  /\ calls[2].info.Value = 32 /\ calls[2].res = ErrSkip
  /\ calls[3].info.Value = 33

\* C8: when the callback returns the skip signal for a map key of any kind,
\* the value of that entry is not reported, and the skip is no failure.
C8_SkipKeySkipsValue ==
  \A k \in Calls :
    (calls[k].info.isMapKey /\ IsErrSkip(calls[k].res)) =>
      /\ ~\E m \in Calls : /\ m > k
                           /\ calls[m].info.isMapValue
                           /\ calls[m].info.Parent = calls[k].info.Parent
                           /\ EntryOf(m) = EntryOf(k)
      /\ (Done /\ k = Len(calls)) => result = NoError

\* C9 as stated: after a skip signal at an item of an array or slice, of any
\* kind, the next item of the same array or slice is still walked.
C9_SkipItemKeepsSiblings ==
  \A k \in Calls :
    (/\ Done
     /\ IsErrSkip(calls[k].res)
     /\ HasNextSibling(k)
     /\ KindAt(ParentPos(k)) \in {"Array", "Slice"})
      => NextSiblingWalked(k)

\* C9 amended: after a skip signal at an item of an array or slice that is
\* itself a container, none of the item's children is reported and the next
\* item is still walked; after a skip signal at an item without children
\* (scalar, string, chan, func) no later item of that array or slice is
\* reported.
C9_SkipItemAmended ==
  \A k \in Calls :
    (/\ ParentPos(k) # 0
     /\ KindAt(ParentPos(k)) \in {"Array", "Slice"}
     /\ IsErrSkip(calls[k].res))
      => /\ IsContainerAt(k) =>
              /\ \A m \in Calls : calls[m].info.Parent # calls[k].info.id
              /\ (Done /\ HasNextSibling(k)) => NextSiblingWalked(k)
         /\ IsLeafAt(k) =>
              \A m \in Calls : m > k => calls[m].info.Parent # calls[k].info.Parent

C9_Witness ==
  /\ Done /\ root = 31
  /\ \E k \in Calls :
       /\ calls[k].info.Value = 33 /\ calls[k].res = ErrSkip
       /\ k < Len(calls) /\ calls[k + 1].info.Value = 34

\* invocation k is for a map key or for a node inside a map key
InMapKey(k) ==
  calls[k].info.isMapKey \/ \E a \in Calls : IsAncestor(a, k) /\ calls[a].info.isMapKey

\* C10 as stated: Walk never returns the skip signal or an error wrapping it.
C10_NeverReturnsErrSkip == Done => ~IsErrSkip(result)

\* C10 amended: Walk returns the skip signal exactly when the last callback
\* invocation returned it at a node without children (scalar, string, chan,
\* func) that is neither a map key nor inside one, and then returns the very
\* value the callback returned; a skip signal at a container, at a map key or
\* inside a map key never reaches Walk's caller.
C10_ErrSkipOnlyFromLeaf ==
  Done =>
    /\ IsErrSkip(result) <=>
         /\ calls # <<>>
         /\ IsErrSkip(calls[Len(calls)].res)
         /\ IsLeafAt(Len(calls))
         /\ ~InMapKey(Len(calls))
    /\ IsErrSkip(result) => result = calls[Len(calls)].res

C10_Witness ==
  /\ Done /\ root = 38 /\ Len(calls) = 4
  /\ calls[4].info.Value = 41 /\ calls[4].res = WrappedErrSkip
  /\ result = WrappedErrSkip

(***************************************************************************)
(* Errors of the callback (C11, C12)                                       *)
(***************************************************************************)
\* invocation k returned an error that is not the skip signal
FailedAt(k) == calls[k].res # NoError /\ ~IsErrSkip(calls[k].res)

\* number of ancestors of invocation k
RECURSIVE DepthOf(_)
DepthOf(k) == IF ParentPos(k) = 0 THEN 0 ELSE 1 + DepthOf(ParentPos(k))

\* C11: when a callback invocation, at any depth of the traversal, returns an
\* error that is not the skip signal, Walk returns that same error value: it
\* is not wrapped, not replaced by another error and not turned into success.
C11_ErrorReturnedUnchanged ==
  \A k \in Calls : (Done /\ FailedAt(k)) => result = calls[k].res

C11_Witness ==
  /\ Done /\ root = 13 /\ Len(calls) = 3
  /\ calls[3].info.Value = 15 /\ DepthOf(3) = 2
  /\ calls[3].res = errTest /\ result = errTest

\* C12: the invocation that returns an error other than the skip signal is
\* the last invocation of the walk: no descendant, no later sibling, no value
\* paired with a failing key, no later map entry and no remaining sibling of
\* an ancestor is reported after it.
C12_ErrorIsLastInvocation ==
  \A k \in Calls : FailedAt(k) => k = Len(calls)

C12_Witness ==
  /\ Done /\ root = 8 /\ Len(calls) = 2
  /\ calls[2].info.isMapKey /\ calls[2].res = errTest
  /\ result = errTest

(***************************************************************************)
(* Walk's early returns (C13, C14)                                         *)
(***************************************************************************)
\* every descriptor built so far: reported ones and those of calls in progress
Descriptors ==
  {calls[k].info : k \in Calls} \cup {stack[j].info : j \in DOMAIN stack}

\* nothing of the traversal has happened: no callback invocation, no
\* descriptor built, no walkValue call, nothing recorded
NothingWalked ==
  calls = <<>> /\ stack = <<>> /\ nextId = 1 /\ state.visited = {}

\* C13 as stated: Walk on a nil root returns success and never invokes the
\* callback.
C13_NilRootSucceeds ==
  (Done /\ root = NilRoot) => (result = NoError /\ calls = <<>>)

\* C13 amended: Walk on a nil root never invokes the callback; it returns
\* success, except when unsafe addressing is enabled and the self-check
\* failed, where it returns ErrBadInternalReflectValueDetected.
C13_NilRootAmended ==
  (Done /\ root = NilRoot) =>
    /\ NothingWalked
    /\ result = IF SelfCheckPassed THEN NoError
                ELSE ErrBadInternalReflectValueDetected

C13_Witness ==
  /\ Done /\ root = NilRoot /\ result = NoError /\ calls = <<>>
  /\ state.UnsafeReadDirectPtr /\ checkValueResult

\* C14: when unsafe addressing is enabled and the self-check fails, Walk
\* returns ErrBadInternalReflectValueDetected for every root, the nil root
\* included, with no callback invocation and no traversal step before it;
\* when unsafe addressing is disabled Walk never returns that error and every
\* descriptor carries the address CanAddr/UnsafeAddr give, whatever the
\* self-check's result.
C14_SelfCheckFailureAborts ==
  pc \in {"walking", "done", "crashed"} =>
    /\ ~SelfCheckPassed =>
         /\ Done
         /\ result = ErrBadInternalReflectValueDetected
         /\ NothingWalked
    /\ ~state.UnsafeReadDirectPtr =>
         /\ result # ErrBadInternalReflectValueDetected
         /\ \A d \in Descriptors : d.DirectPointer = Heap[d.Value].addr

C14_Witness ==
  /\ Done /\ root = NilRoot
  /\ state.UnsafeReadDirectPtr /\ ~checkValueResult
  /\ result = ErrBadInternalReflectValueDetected

C15_WitnessUnknown ==
  pc = "routed" /\ routed = UnknownKind /\ IsErrUnknownKind(result)

(***************************************************************************)
(* Role flags of the descriptors (C16, C17)                                *)
(***************************************************************************)
\* invocation k is for the key (col = 1) or the value (col = 2) that the map
\* of its parent invocation holds in one of its entries
IsEntryPartAt(k, col) ==
  /\ ParentPos(k) # 0
  /\ KindAt(ParentPos(k)) = "Map"
  /\ \E e \in DOMAIN Heap[calls[ParentPos(k)].info.Value].entries :
       Heap[calls[ParentPos(k)].info.Value].entries[e][col] = calls[k].info.Value

\* C16: the descriptor of a value visited directly as a map key has isMapKey
\* true and isMapValue false, the descriptor of a value visited directly as a
\* map value has isMapValue true and isMapKey false, and every other
\* descriptor (root, array and slice items, struct fields, pointees, the
\* descendants of keys and of values) has both false.
C16_MapRoleFlags ==
  \A k \in Calls :
    /\ calls[k].info.isMapKey = IsEntryPartAt(k, 1)
    /\ calls[k].info.isMapValue = IsEntryPartAt(k, 2)
    /\ ~(calls[k].info.isMapKey /\ calls[k].info.isMapValue)

C16_Witness ==
  /\ Done /\ root = 13 /\ Len(calls) = 7
  /\ calls[2].info.isMapKey /\ ~calls[2].info.isMapValue
  /\ calls[3].info.Parent = calls[2].info.id
  /\ ~calls[3].info.isMapKey /\ ~calls[3].info.isMapValue
  /\ calls[4].info.isMapValue /\ ~calls[4].info.isMapKey
  /\ ~calls[1].info.isMapKey /\ ~calls[1].info.isMapValue

\* invocation k is for a field of the struct of its parent invocation
IsFieldAt(k) == ParentPos(k) # 0 /\ KindAt(ParentPos(k)) = "Struct"

\* C17: a descriptor has IsStructField true exactly when its value is visited
\* directly as a field of a struct (what lies below a field, such as the
\* items of a slice field, does not inherit the flag), and IsFlat true
\* exactly when the kind of its value is a builtin scalar (bool, integer,
\* float, complex, uintptr, unsafe pointer); a flat value has no children, so
\* no invocation has it as parent.
C17_FieldAndFlatFlags ==
  \A k \in Calls :
    /\ calls[k].info.IsStructField = IsFieldAt(k)
    /\ calls[k].info.IsFlat = (KindAt(k) \in FlatKinds)
    /\ calls[k].info.IsFlat =>
         \A m \in Calls : calls[m].info.Parent # calls[k].info.id

C17_Witness ==
  /\ Done /\ root = 38 /\ Len(calls) = 5
  /\ ~calls[1].info.IsStructField /\ ~calls[1].info.IsFlat
  /\ calls[2].info.IsStructField /\ calls[2].info.IsFlat
  /\ calls[3].info.IsStructField /\ ~calls[3].info.IsFlat
  /\ calls[4].info.Parent = calls[3].info.id
  /\ ~calls[4].info.IsStructField /\ ~calls[4].info.IsFlat

(***************************************************************************)
(* DirectPointer under the two addressing modes (C18, C19)                 *)
(***************************************************************************)
\* C18: under safe addressing the descriptor of a value that CanAddr reports
\* as non-addressable has a null DirectPointer, and the descriptor of an
\* addressable value has a non-null DirectPointer, the address of the
\* value's storage.
C18_SafeDirectPointer ==
  ~state.UnsafeReadDirectPtr =>
    \A d \in Descriptors :
      /\ ~CanAddr(d.Value) => d.DirectPointer = zeroPointer
      /\ CanAddr(d.Value) =>
           (d.DirectPointer # zeroPointer /\ d.DirectPointer = Heap[d.Value].addr)

C18_Witness ==
  /\ Done /\ root = 26 /\ ~state.UnsafeReadDirectPtr /\ Len(calls) = 5
  /\ ~CanAddr(calls[1].info.Value) /\ calls[1].info.DirectPointer = zeroPointer
  /\ CanAddr(calls[2].info.Value) /\ calls[2].info.DirectPointer = 300

\* C19: for every addressable value, the address a walk under unsafe
\* addressing puts in the descriptor (the pointer word read out of the
\* reflect.Value) is the address safe addressing returns for that value.
C19_UnsafeEqualsSafe ==
  state.UnsafeReadDirectPtr =>
    \A d \in Descriptors :
      CanAddr(d.Value) =>
        {d.DirectPointer} =
          getDirectPointer([state EXCEPT !.UnsafeReadDirectPtr = FALSE], d.Value)

C19_Witness ==
  /\ Done /\ root = 26 /\ state.UnsafeReadDirectPtr /\ Len(calls) = 5
  /\ \E k \in Calls :
       /\ calls[k].info.Value = 30
       /\ calls[k].info.DirectPointer = 400
       /\ getDirectPointer(New, 30) = {400}

(***************************************************************************)
(* Repeated walks on one Walker (C20)                                      *)
(***************************************************************************)
\* the invocations of the walk before this one
PrevCalls == prev[Len(prev)].calls

\* the settings of this walk
Settings ==
  [LoopProtection |-> state.LoopProtection,
   UnsafeReadDirectPtr |-> state.UnsafeReadDirectPtr]

\* this walk runs with the settings of the walk before it
SameSettings == prev[Len(prev)].opts = Settings

\* invocation k is for a key of the map that the k-th invocation of the walk
\* before also reported a key of, the iterator having yielded another entry
OtherEntryYielded(k) ==
  /\ calls[k].info.isMapKey /\ PrevCalls[k].info.isMapKey
  /\ calls[k].info.Parent = PrevCalls[k].info.Parent
  /\ calls[k].info.Value # PrevCalls[k].info.Value

\* C20 as stated: each Walk starts with an empty visited table, so walking the
\* same root twice with the same callback produces the same callback sequence
\* the second time as the first, and the same result.
C20_SameCallbackSequence ==
  /\ (pc = "walking" /\ calls = <<>> /\ Len(stack) = 1 /\ Top.pc = "enter")
       => state.visited = {}
  /\ (prev # NoWalk /\ Done /\ SameSettings) =>
       (calls = PrevCalls /\ result = prev[Len(prev)].result)

\* C20 amended: successive Walk calls on one Walker share no repeat-visit
\* state.  The visited table of a walk holds only what this walk recorded, so
\* it is empty when the walk starts; and a second walk of the same root with
\* the same callback reports what the first reported, nothing being
\* suppressed or flagged because of the earlier walk: up to the first place
\* where the map iterator yields the entries of a map in another order, the
\* same descriptors (value, address, IsVisited, flags, parent) with the same
\* callback results, no more and no fewer, and then the same result of Walk.
C20_WalksShareNoVisitedState ==
  /\ \A p \in state.visited :
       \E d \in Descriptors :
         d.DirectPointer = p[1] /\ Heap[d.Value].type = p[2]
  /\ (prev # NoWalk /\ pc \in {"walking", "done"} /\ SameSettings) =>
       /\ \A k \in Calls :
            (\A j \in 1..(k - 1) : j <= Len(PrevCalls) /\ calls[j] = PrevCalls[j])
              => /\ k <= Len(PrevCalls)
                 /\ calls[k] = PrevCalls[k] \/ OtherEntryYielded(k)
       /\ (Done /\ \A j \in Calls : j <= Len(PrevCalls) /\ calls[j] = PrevCalls[j])
            => (calls = PrevCalls /\ result = prev[Len(prev)].result)

C20_Witness ==
  /\ Done /\ prev # NoWalk /\ root = 5 /\ state.LoopProtection
  /\ Len(calls) = 3 /\ AllNil
  /\ calls = PrevCalls
  /\ prev[Len(prev)].root = 5

(***************************************************************************)
(* Construction and configuration of the Walker (C21, C22)                 *)
(***************************************************************************)
\* a step that invokes the callback: one invocation is appended to calls
CallbackInvoked ==
  /\ SameGoroutine
  /\ Len(calls') = Len(calls) + 1 /\ SubSeq(calls', 1, Len(calls)) = calls

\* C21: the Walker returned by New(f) has LoopProtection true and
\* UnsafeReadDirectPtr false, nothing has been walked with it, and the
\* function its walks invoke is f: every invocation is answered by f.
C21_NewDefaults ==
  /\ w.LoopProtection = TRUE /\ w.UnsafeReadDirectPtr = FALSE
  /\ pc = "config" /\ calls = <<>> /\ prev = <<>>
  /\ [][CallbackInvoked => calls'[Len(calls')].res \in callback]_vars

C21_Witness ==
  /\ pc = "walking" /\ prev = <<>> /\ root = 5 /\ Len(calls) = 1
  /\ w.LoopProtection /\ ~w.UnsafeReadDirectPtr
  /\ state.LoopProtection /\ ~state.UnsafeReadDirectPtr

\* C22: each setter changes the Walker it is called on and nothing else:
\* WithLoopProtection(v) sets LoopProtection to v and leaves
\* UnsafeReadDirectPtr as it was, WithUnsafeReadDirectPtr(v) sets
\* UnsafeReadDirectPtr to v and leaves LoopProtection as it was, a step before
\* or between walks changes one toggle at most and nothing of a walk; Walk takes the
\* toggles as they were last set, and they do not change while it runs.
C22_SettersSetOneToggle ==
  /\ [](pc \in {"walking", "crashed"} =>
          /\ state.LoopProtection = w.LoopProtection
          /\ state.UnsafeReadDirectPtr = w.UnsafeReadDirectPtr)
  /\ [][pc' = "walking" =>
          /\ state'.LoopProtection = w.LoopProtection
          /\ state'.UnsafeReadDirectPtr = w.UnsafeReadDirectPtr]_vars
  /\ [][/\ \A val \in BOOLEAN :
             /\ WithLoopProtection(val) =>
                  /\ w'.LoopProtection = val
                  /\ w'.UnsafeReadDirectPtr = w.UnsafeReadDirectPtr
             /\ WithUnsafeReadDirectPtr(val) =>
                  /\ w'.UnsafeReadDirectPtr = val
                  /\ w'.LoopProtection = w.LoopProtection
        /\ (pc \in {"config", "done"} /\ pc' = pc /\ prev' = prev) =>
             /\ w'.LoopProtection = w.LoopProtection
                  \/ w'.UnsafeReadDirectPtr = w.UnsafeReadDirectPtr
             /\ UNCHANGED <<state, stack, calls, result, root>>
        /\ pc \notin {"config", "done"} => w' = w
       ]_vars

C22_Witness ==
  /\ pc = "walking" /\ Len(calls) = 6 /\ root = 5
  /\ ~w.LoopProtection /\ w.UnsafeReadDirectPtr
  /\ ~state.LoopProtection /\ state.UnsafeReadDirectPtr

(***************************************************************************)
(* Values without children, nil containers, parent links (C23 - C25)       *)
(***************************************************************************)
\* the walkValue call of the top frame returns err in this step: to the
\* handler that made the call, or to Walk's caller when it is the root's
WalkValueReturns(err) ==
  /\ stack' = SubSeq(stack, 1, Len(stack) - 1)
  /\ IF Len(stack) = 1
     THEN pc' = "done" /\ result' = err
     ELSE pc' = "walking" /\ ret' = err

\* C23: for a value without children (scalar, string, chan, func) the
\* callback is invoked once, with the descriptor walkValue was called on, no
\* descriptor ever has it as parent, and the walkValue call of that value
\* returns, in the step of the invocation, what the callback returned, nil or
\* an error of any kind.
C23_LeafInvokedOnceAndReturned ==
  /\ [](\A k \in Calls :
          IsLeafAt(k) =>
            /\ \A m \in Calls : calls[m].info.id = calls[k].info.id => m = k
            /\ \A d \in Descriptors : d.Parent # calls[k].info.id)
  /\ [][(CallbackInvoked /\ Heap[Top.info.Value].kind \in SimpleKinds) =>
          /\ calls'[Len(calls')].info = Top.info
          /\ WalkValueReturns(calls'[Len(calls')].res)]_vars

C23_Witness ==
  /\ pc = "walking" /\ root = 43 /\ Len(calls) = 2 /\ Len(stack) = 1
  /\ KindAt(2) = "Chan" /\ calls[2].res = errTest /\ ret = errTest

\* the value is a nil pointer, a nil interface or a nil map
IsNilContainer(v) == Heap[v].kind \in {"Ptr", "Interface", "Map"} /\ IsNil(v)
\* the value is a pointer or an interface that holds something
IsNonNilPointer(v) == Heap[v].kind \in {"Ptr", "Interface"} /\ ~IsNil(v)

\* C24 (nil is what IsNil() answers once the callback has returned): for a
\* nil pointer, a nil interface or a nil map the callback is
\* invoked once for the container itself, no descriptor has it as parent, and
\* after a callback result of nil the walkValue call of the node returns nil
\* in the same step; a non-nil pointer or interface has one child, its
\* pointee: after a callback result of nil walkValue is called on a new
\* descriptor of the pointee, and no other descriptor has the pointer as
\* parent.
C24_NilContainersAndPointees ==
  /\ [](\A k \in Calls :
          /\ IsNilContainer(calls[k].info.Value) =>
               /\ \A m \in Calls : calls[m].info.id = calls[k].info.id => m = k
               /\ \A d \in Descriptors : d.Parent # calls[k].info.id
          /\ IsNonNilPointer(calls[k].info.Value) =>
               /\ \A d \in Descriptors :
                    d.Parent = calls[k].info.id =>
                      d.Value = Kids(calls[k].info.Value)[1]
               /\ Cardinality({m \in Calls : calls[m].info.Parent = calls[k].info.id}) <= 1)
  /\ [][(CallbackInvoked /\ calls'[Len(calls')].res = NoError) =>
          \A v \in {Top.info.Value} :
            /\ IsNilContainer(v)' => WalkValueReturns(NoError)
            /\ IsNonNilPointer(v)' =>
                 /\ Len(stack') = Len(stack) + 1
                 /\ stack'[Len(stack')].pc = "enter"
                 /\ stack'[Len(stack')].info.Parent = Top.info.id
                 /\ stack'[Len(stack')].info.Value = Kids(v)[1]']_vars

C24_Witness ==
  /\ Done /\ root = 31 /\ Len(calls) = 6 /\ AllNil /\ result = NoError
  /\ \E k \in Calls : calls[k].info.Value = 33
  /\ \E k \in Calls : calls[k].info.Value = 36 /\ k = Len(calls)
  /\ \E k \in Calls : calls[k].info.Value = 35 /\ calls[k].info.Parent = calls[k - 1].info.id

\* the values a container yields: items, fields, pointee, keys and values
ChildValues(v) ==
  {Kids(v)[i] : i \in DOMAIN Kids(v)}
    \cup {Heap[v].entries[e][c] : e \in DOMAIN Heap[v].entries, c \in {1, 2}}

\* C25: the Parent links of the descriptors are the traversal tree: the
\* descriptor of the root, and no other, has no parent; the Parent of every
\* other descriptor (reported or of a call in progress) is the descriptor that
\* was passed to the callback, earlier in the walk, for the container the
\* value is an item, field, key, value or pointee of, and that invocation
\* returned nil.
C25_ParentLinks ==
  pc \in {"walking", "done", "crashed"} =>
    /\ \A d \in Descriptors : (d.Parent = 0) = (d.id = 1)
    /\ \A d \in Descriptors : d.id = 1 => d.Value = root
    /\ \A d \in Descriptors :
         d.Parent # 0 =>
           \E j \in Calls :
             /\ calls[j].info.id = d.Parent
             /\ calls[j].info.id < d.id
             /\ calls[j].res = NoError
             /\ IsContainerAt(j)
             /\ d.Value \in ChildValues(calls[j].info.Value)
    /\ \A k \in Calls :
         calls[k].info.Parent # 0 =>
           \E j \in 1..(k - 1) : calls[j].info.id = calls[k].info.Parent

C25_Witness ==
  /\ Done /\ root = 13 /\ Len(calls) = 7 /\ AllNil
  /\ calls[1].info.Parent = 0
  /\ calls[2].info.Parent = calls[1].info.id /\ KindAt(2) = "Array"
  /\ calls[3].info.Parent = calls[2].info.id /\ KindAt(3) = "Int"
  /\ calls[4].info.Parent = calls[1].info.id /\ calls[4].info.isMapValue

(***************************************************************************)
(* The repeat-visit detector (C27 - C30)                                   *)
(***************************************************************************)
\* the (address, static type) pair of a descriptor
PairOf(d) == <<d.DirectPointer, Heap[d.Value].type>>

\* the descriptors the detector has looked at: the reported ones and those of
\* the calls in progress that are past the detector
Detected ==
  {calls[k].info : k \in Calls}
    \cup {stack[j].info : j \in {i \in DOMAIN stack : stack[i].pc # "enter"}}

\* the top frame's walkValue call runs its detector in this step
DetectorStep ==
  /\ SameGoroutine
  /\ pc = "walking" /\ stack # <<>> /\ Top.pc = "enter"
  /\ pc' # "crashed"

\* C27: the detector is a check-and-record on the (address, static type)
\* pair.  A descriptor is flagged IsVisited exactly when its address is not
\* null and an earlier visit of the same walk recorded the same pair;
\* otherwise a non-null address has its pair inserted; with a null address the
\* visited table is left as it is and the descriptor is not flagged.  The
\* table is at every moment the set of pairs of the descriptors with an
\* address that the detector has looked at.
C27_DetectorCheckAndRecord ==
  /\ [](pc \in {"walking", "done", "crashed"} =>
          /\ state.visited = {PairOf(d) : d \in {e \in Detected : e.DirectPointer # zeroPointer}}
          /\ \A d \in Detected :
               d.IsVisited =
                 (/\ d.DirectPointer # zeroPointer
                  /\ \E e \in Detected : e.id < d.id /\ PairOf(e) = PairOf(d)))
  /\ [][DetectorStep =>
          LET d == Top.info
              known == d.DirectPointer # zeroPointer /\ PairOf(d) \in state.visited
          IN /\ state'.visited =
                  IF d.DirectPointer # zeroPointer
                  THEN state.visited \cup {PairOf(d)}
                  ELSE state.visited
             /\ Len(stack') = Len(stack) =>
                  stack'[Len(stack')].info = [walkFlat(d) EXCEPT !.IsVisited = known]
             /\ (Len(stack') < Len(stack)) = (known /\ state.LoopProtection)]_vars

C27_Witness ==
  /\ Done /\ root = 26 /\ ~state.LoopProtection /\ Len(calls) = 6 /\ AllNil
  /\ calls[4].info.Value = 30 /\ ~calls[4].info.IsVisited
  /\ calls[6].info.Value = 30 /\ calls[6].info.IsVisited
  /\ ~calls[1].info.IsVisited /\ calls[1].info.DirectPointer = zeroPointer
  /\ Cardinality(state.visited) = 4

\* invocations j < k were for the same address and static type
SamePairAt(j, k) ==
  /\ calls[k].info.DirectPointer # zeroPointer
  /\ PairOf(calls[j].info) = PairOf(calls[k].info)

\* C28: revisit suppression comes before the callback.  With LoopProtection
\* the callback never receives a descriptor whose IsVisited is true, no pair
\* of address and type is reported twice, whatever the kind, and a revisited
\* node is not expanded: its walkValue call returns nil in the detector's
\* step, with no invocation and no descriptor built under it.  Without
\* LoopProtection the revisited node goes on to its handler and is reported
\* with IsVisited = true.
C28_SuppressionBeforeCallback ==
  /\ [](pc \in {"walking", "done", "crashed"} =>
          /\ state.LoopProtection =>
               /\ \A k \in Calls : ~calls[k].info.IsVisited
               /\ \A k \in Calls : \A j \in 1..(k - 1) : ~SamePairAt(j, k)
               /\ \A d \in Descriptors :
                    d.Parent # 0 => \E k \in Calls : calls[k].info.id = d.Parent
          /\ ~state.LoopProtection =>
               \A k \in Calls :
                 (\E j \in 1..(k - 1) : SamePairAt(j, k)) => calls[k].info.IsVisited)
  /\ [][(DetectorStep /\ Top.info.DirectPointer # zeroPointer
                       /\ PairOf(Top.info) \in state.visited) =>
          IF state.LoopProtection
          THEN WalkValueReturns(NoError) /\ calls' = calls /\ nextId' = nextId
          ELSE /\ Len(stack') = Len(stack)
               /\ stack'[Len(stack')].pc = "callback"
               /\ stack'[Len(stack')].info.IsVisited]_vars

C28_Witness ==
  /\ Done /\ root = 26 /\ state.LoopProtection /\ Len(calls) = 5 /\ AllNil
  /\ calls[4].info.Value = 30 /\ calls[5].info.Value = 29
  /\ <<400, "int">> \in state.visited
  /\ nextId = 7

C28_WitnessUnprotected ==
  /\ Done /\ root = 26 /\ ~state.LoopProtection /\ Len(calls) = 6
  /\ calls[6].info.Value = 30 /\ calls[6].info.IsVisited

\* invocation k is for an addressable struct or array whose first field or
\* item lies at the container's own address and has another static type
SharesAddressWithFirstChild(k) ==
  LET v == calls[k].info.Value
  IN /\ Heap[v].kind \in {"Struct", "Array"}
     /\ calls[k].info.DirectPointer # zeroPointer
     /\ Kids(v) # <<>>
     /\ Heap[Kids(v)[1]].addr = calls[k].info.DirectPointer
     /\ Heap[Kids(v)[1]].type # Heap[v].type

\* C29: two nodes at one address with different static types are distinct
\* for the detector.  Under LoopProtection an addressable struct and its
\* first field, or an addressable array and its first item, are both passed
\* to the callback (the field or item right after the container, when the
\* callback let the walk go on), and neither is flagged; in general a flagged
\* descriptor has an earlier one of the same address and the same type.
C29_SameAddressOtherType ==
  /\ state.LoopProtection =>
       \A k \in Calls :
         (SharesAddressWithFirstChild(k) /\ calls[k].res = NoError /\ k < Len(calls)) =>
           /\ calls[k + 1].info.Value = Kids(calls[k].info.Value)[1]
           /\ calls[k + 1].info.Parent = calls[k].info.id
           /\ calls[k + 1].info.DirectPointer = calls[k].info.DirectPointer
           /\ ~calls[k].info.IsVisited /\ ~calls[k + 1].info.IsVisited
  /\ \A k \in Calls :
       calls[k].info.IsVisited =>
         \E j \in 1..(k - 1) :
           /\ calls[j].info.DirectPointer = calls[k].info.DirectPointer
           /\ TypeAt(j) = TypeAt(k)

C29_Witness ==
  /\ Done /\ root = 26 /\ state.LoopProtection /\ Len(calls) = 5 /\ AllNil
  /\ KindAt(2) = "Struct" /\ calls[2].info.DirectPointer = 300
  /\ KindAt(3) = "Ptr" /\ calls[3].info.DirectPointer = 300
  /\ ~calls[2].info.IsVisited /\ ~calls[3].info.IsVisited

C29_WitnessArray ==
  /\ Done /\ root = 22 /\ state.LoopProtection /\ AllNil /\ Len(calls) = 3
  /\ KindAt(2) = "Array" /\ KindAt(3) = "Struct"
  /\ calls[2].info.DirectPointer = calls[3].info.DirectPointer

\* the nodes reached from S through values without an address only
RECURSIVE ClosureUnaddressed(_)
ClosureUnaddressed(S) ==
  LET T == S \cup {c \in UNION {Children(n) : n \in S} : ~CanAddr(c)}
  IN IF T = S THEN S ELSE ClosureUnaddressed(T)

\* the value rooted at r is pointer-linked: every cycle of it passes through
\* a value with an address (a pointee, a field or item of one, a slice item)
PointerLinked(r) ==
  \A n \in NodesOf(r) :
    ~CanAddr(n) => n \notin ClosureUnaddressed({c \in Children(n) : ~CanAddr(c)})

\* the callback has so far returned ErrSkip for the descriptors flagged
\* IsVisited and nil for the others
SkipsVisitedOnly ==
  \A k \in Calls :
    calls[k].res = IF calls[k].info.IsVisited THEN ErrSkip ELSE NoError

ItemsAfter(c) ==
  CASE c.mut = "SetNil" -> <<>>
    [] c.mut = "SetLen" -> SubSeq(Heap[c.info.Value].kids, 1, 1)
    [] c.mut = "Set" -> NewItems(c.info.Value)
    [] OTHER -> Heap[c.info.Value].kids

\* the callback wrote every int it was handed
SetsEveryInt ==
  \A k \in Calls : KindAt(k) = "Int" /\ calls[k].info.Value \in Mutable => calls[k].mut = "SetInt"

\* C26: the children of a node are enumerated from the value as it is after
\* the callback for the node has returned.  On the step of an invocation that
\* returns nil, a pointer the callback has set to nil has its walkValue call
\* return nil with no child, and a pointer, slice, array or struct that has
\* items then has walkValue called on the first of the items it has then.  In
\* every state the children of a reported pointer, slice, array or struct of
\* the writable values are among the items it had when its callback returned,
\* and after a walk whose callback always returned nil they are exactly those
\* items, in order: none for a pointer set to nil, the first item alone for a
\* slice shortened to one, the items of the new slice for a slice replaced.
\* After a walk of a pointer root whose callback returned nil every time and
\* set every int it was handed, every int reachable from the root is set.
C26_MutationVisible ==
  /\ [](\A k \in Calls :
          calls[k].info.Value \in Mutable /\ KindAt(k) \in {"Ptr", "Slice", "Array", "Struct"} =>
            /\ \A d \in Descriptors :
                 d.Parent = calls[k].info.id =>
                   \E i \in DOMAIN ItemsAfter(calls[k]) : d.Value = ItemsAfter(calls[k])[i]
            /\ (Done /\ AllNil) =>
                 \E f \in [DOMAIN ItemsAfter(calls[k]) -> Calls] :
                   /\ \A i \in DOMAIN f :
                        /\ calls[f[i]].info.Parent = calls[k].info.id
                        /\ calls[f[i]].info.Value = ItemsAfter(calls[k])[i]
                   /\ \A i, j \in DOMAIN f : i < j => f[i] < f[j]
                   /\ \A m \in Calls :
                        calls[m].info.Parent = calls[k].info.id => \E i \in DOMAIN f : f[i] = m)
  /\ []((Done /\ root \in Mutable /\ Heap[root].kind = "Ptr" /\ calls # <<>>
          /\ AllNil /\ SetsEveryInt) =>
          /\ result = NoError
          /\ \A n \in NodesOf(root) : Heap[n].kind = "Int" => n \in mem.ints)
  /\ [][(CallbackInvoked /\ calls'[Len(calls')].res = NoError
          /\ Top.info.Value \in Mutable
          /\ Heap[Top.info.Value].kind \in {"Ptr", "Slice", "Array", "Struct"}) =>
          IF ItemsAfter(calls'[Len(calls')]) = <<>>
          THEN WalkValueReturns(NoError)
          ELSE /\ Len(stack') = Len(stack) + 1
               /\ stack'[Len(stack')].pc = "enter"
               /\ stack'[Len(stack')].info.Parent = Top.info.id
               /\ stack'[Len(stack')].info.Value = ItemsAfter(calls'[Len(calls')])[1]]_vars

\* s := []int{1, 2}; Walk(&s) with a callback that stores []int{7} in s and
\* sets every int: the item of the new slice is the one child of s, it is set
C26_Witness ==
  /\ Done /\ root = 51 /\ AllNil /\ result = NoError /\ Len(calls) = 3
  /\ calls[2].info.Value = 52 /\ calls[2].mut = "Set"
  /\ calls[3].info.Value = 55 /\ calls[3].mut = "SetInt" /\ 55 \in mem.ints
  /\ calls[3].info.Parent = calls[2].info.id

\* x := 1; p := &x; Walk(&p) with a callback that sets p to nil: x is not walked
C26_WitnessNil ==
  /\ Done /\ root = 48 /\ AllNil /\ result = NoError /\ Len(calls) = 2
  /\ calls[2].info.Value = 49 /\ calls[2].mut = "SetNil"

\* s := []int{1, 2}; Walk(&s) with a callback that shortens s to one item
C26_WitnessShortened ==
  /\ Done /\ root = 51 /\ AllNil /\ result = NoError /\ Len(calls) = 3
  /\ calls[2].mut = "SetLen" /\ calls[3].info.Value = 53

\* TestWalker_Walk/Deep: v.Val1 and v.Test.Val are both set
C26_WitnessDeep ==
  /\ Done /\ root = 56 /\ AllNil /\ result = NoError /\ Len(calls) = 5
  /\ SetsEveryInt /\ mem.ints = {58, 60}

(***************************************************************************)
(* The descriptor builder (C31)                                            *)
(***************************************************************************)
\* a handler step has built a descriptor and called walkValue on it
DescriptorBuilt ==
  /\ SameGoroutine
  /\ pc = "walking" /\ nextId' = nextId + 1 /\ Len(stack') = Len(stack) + 1

\* C31: newWalkerInfo returns a descriptor for every value, under every
\* configuration, and the descriptor has IsVisited false and both map-role
\* flags false, the value and the parent it was given; the step of a handler
\* that builds the descriptor of a child leaves the visited table and the
\* configuration of the session and of the Walker as they were, and the
\* descriptor walkValue is entered with is one newWalkerInfo returns, not yet
\* flagged as visited, a map-role flag being set by walkMap alone.
C31_BuilderHasNoSideEffect ==
  /\ [](\A v \in Nodes, unsafe \in BOOLEAN :
          LET built == newWalkerInfo([state EXCEPT !.UnsafeReadDirectPtr = unsafe],
                                     v, 0, nextId)
          IN /\ built # {}
             /\ \A d \in built :
                  /\ ~d.IsVisited /\ ~d.isMapKey /\ ~d.isMapValue
                  /\ d.Value = v /\ d.Parent = 0 /\ d.id = nextId)
  /\ [](\A j \in DOMAIN stack : stack[j].pc = "enter" => ~stack[j].info.IsVisited)
  /\ [][DescriptorBuilt =>
          /\ state' = state /\ w' = w /\ calls' \in {calls, Append(calls, calls'[Len(calls')])}
          /\ LET d == stack'[Len(stack')].info
             IN /\ stack'[Len(stack')].pc = "enter"
                /\ ~d.IsVisited
                /\ (d.isMapKey \/ d.isMapValue) => Top.fn = "walkMap"
                /\ [d EXCEPT !.isMapKey = FALSE, !.isMapValue = FALSE,
                             !.IsStructField = FALSE]
                     \in newWalkerInfo(state, d.Value, Top.info.id, nextId)]_vars

\* the descriptor of x has been built on the second arrival at it, through
\* v.B: its pair is in the visited table, the builder has not flagged it
C31_Witness ==
  /\ pc = "walking" /\ root = 26 /\ stack # <<>> /\ Top.pc = "enter"
  /\ Top.info.Value = 30 /\ Top.info.DirectPointer = 400
  /\ <<400, "int">> \in state.visited /\ ~Top.info.IsVisited

\* the descriptor of a map value has been built; walkMap has set its flag
C31_WitnessMapValue ==
  pc = "walking" /\ stack # <<>> /\ Top.pc = "enter" /\ Top.info.isMapValue

OtherAddressing ==
  /\ prev[Len(prev)].opts.LoopProtection = state.LoopProtection
  /\ prev[Len(prev)].opts.UnsafeReadDirectPtr # state.UnsafeReadDirectPtr

C33_WitnessMapOrder ==
  /\ Done /\ prev # NoWalk /\ root = 8 /\ checkValueResult /\ OtherAddressing
  /\ AllNil /\ Len(calls) = 5 /\ calls # PrevCalls

(***************************************************************************)
(* The detector records before the callback runs (C34)                     *)
(***************************************************************************)
\* the descriptor Parent of d points to, d not being the root's
ParentOf(d) == CHOOSE p \in Descriptors : p.id = d.Parent

\* C34: the (address, type) pair of a node is recorded by the time its
\* handler is about to call the callback, and it stays recorded whatever the
\* callback returns, nil, a skip or an error.  With LoopProtection, once the
\* callback has returned a skip for a container, no other descriptor with the
\* container's pair is reported, whatever path arrives at it, and no
\* descriptor has a descriptor with that pair as parent: its children are not
\* visited in this walk.
C34_RecordedBeforeCallback ==
  pc \in {"walking", "done", "crashed"} =>
    /\ \A d \in Detected : d.DirectPointer # zeroPointer => PairOf(d) \in state.visited
    /\ state.LoopProtection =>
         \A k \in Calls :
           (IsErrSkip(calls[k].res) /\ KindAt(k) \in ContainerKinds
              /\ calls[k].info.DirectPointer # zeroPointer) =>
             /\ \A m \in Calls : PairOf(calls[m].info) = PairOf(calls[k].info) => m = k
             /\ \A d \in Descriptors :
                  d.Parent # 0 => PairOf(ParentOf(d)) # PairOf(calls[k].info)

\* Walk(&v), v.A and v.B pointing to the same t: the callback returns ErrSkip
\* for t when v.A leads to it; v.B leads to it again and nothing is reported,
\* t.V is never reported
C34_Witness ==
  /\ Done /\ root = 61 /\ state.LoopProtection /\ result = NoError /\ Len(calls) = 5
  /\ calls[4].info.Value = 65 /\ calls[4].res = ErrSkip
  /\ calls[5].info.Value = 64 /\ calls[5].res = NoError
  /\ <<1200, "T">> \in state.visited
  /\ \A k \in Calls : calls[k].info.Value # 66

(***************************************************************************)
(* The visited table only grows (C35)                                      *)
(***************************************************************************)
\* a step of the walk in progress
WalkStep == pc = "walking" /\ SameGoroutine

\* C35: during a walk the visited table only grows: every step of the walk,
\* an invocation of the callback with any result, a skip, an error on its way
\* up, the return from a subtree, the return of Walk, leaves every recorded
\* pair recorded, and a step adds one pair at most; every recorded pair has a
\* non-null address.  The table is empty when the walk starts.
C35_VisitedOnlyGrows ==
  /\ [](\A p \in state.visited : p[1] # zeroPointer)
  /\ [][WalkStep =>
          /\ state.visited \subseteq state'.visited
          /\ Cardinality(state'.visited) <= Cardinality(state.visited) + 1]_vars
  /\ [][(pc # "walking" /\ pc' = "walking" /\ SameGoroutine) => state'.visited = {}]_vars

\* Walk(&v) of struct{ A, B *int }: the callback's error for x ends the walk,
\* the three pairs recorded on the way are still in the table
C35_Witness ==
  /\ Done /\ root = 26 /\ result = errTest /\ Len(calls) = 4
  /\ state.visited = {<<300, "struct{A,B *int}">>, <<300, "*int">>, <<400, "int">>}

(***************************************************************************)
(* Walk never dispatches the invalid Value (C36)                           *)
(***************************************************************************)
\* C36: in a walk started by Walk every value a descriptor is built for, and
\* so every value handed to kindRoute, is a valid reflect.Value, for every
\* root and every behaviour of the callback: walkValue never returns
\* errInvalidKind and Walk never returns it.  A nil root, a nil pointer, a nil
\* interface and a nil map end their call with nil and no descriptor below.
C36_InvalidKindUnreachable ==
  pc \in {"walking", "done", "crashed"} =>
    /\ result # errInvalidKind /\ ret # errInvalidKind
    /\ \A d \in Descriptors :
         /\ d.Value # InvalidValue
         /\ Heap[d.Value].kind # "Invalid"
         /\ kindRoute(Heap[d.Value].kind) # errInvalidKind
    /\ \A k \in Calls :
         (Kids(calls[k].info.Value) = <<>> /\ Heap[calls[k].info.Value].entries = <<>>) =>
           \A d \in Descriptors : d.Parent # calls[k].info.id

\* Walk([]interface{}{5, nil, (*int)(nil)}) without LoopProtection: the nil
\* interface and the nil pointer are reported and not descended into
C36_Witness ==
  /\ Done /\ root = 31 /\ ~state.LoopProtection /\ AllNil /\ result = NoError
  /\ Len(calls) = 6
  /\ calls[4].info.Value = 33 /\ IsNil(33)
  /\ calls[6].info.Value = 36 /\ IsNil(36)

\* p := &x; Walk(&p) with a callback that sets p to nil: Elem() is not taken
C36_WitnessSetNil ==
  /\ Done /\ root = 48 /\ AllNil /\ result = NoError /\ Len(calls) = 2
  /\ calls[2].mut = "SetNil" /\ IsNil(49) /\ Elem(49) = InvalidValue

(***************************************************************************)
(* Two goroutines in Walk on one Walker (C37)                              *)
(***************************************************************************)
\* two goroutines are in Walk, or have been and one has returned
Concurrent == other # NoGoroutine

\* the invocations c are the first invocations of the walk made alone
AsAlone(c) == Len(c) <= Len(PrevCalls) /\ c = SubSeq(PrevCalls, 1, Len(c))

\* C37: two goroutines in Walk on the same Walker, for the same root, with a
\* callback that keeps no state.  Each has the settings of the Walker and a
\* visited table of its own, holding the pairs of its own descriptors only;
\* a step of one leaves everything the other owns as it was, the scheduler
\* changes nothing but which one runs; and under every interleaving each
\* goroutine reports what the same Walk reported when it ran alone,
\* descriptor by descriptor with the same results, no more and no fewer, and
\* returns the same result.
C37_ConcurrentWalksDoNotInterfere ==
  /\ [](Concurrent =>
          /\ pc # "crashed"
          /\ AsAlone(calls) /\ AsAlone(other.calls)
          /\ pc = "done" => (calls = PrevCalls /\ result = prev[Len(prev)].result)
          /\ other.pc = "done" =>
               (other.calls = PrevCalls /\ other.result = prev[Len(prev)].result)
          /\ state.LoopProtection = w.LoopProtection
          /\ state.UnsafeReadDirectPtr = w.UnsafeReadDirectPtr
          /\ other.state.LoopProtection = w.LoopProtection
          /\ other.state.UnsafeReadDirectPtr = w.UnsafeReadDirectPtr
          /\ \A p \in state.visited : \E d \in Descriptors : p = PairOf(d)
          /\ \A p \in other.state.visited :
               \E d \in {other.calls[k].info : k \in DOMAIN other.calls}
                        \cup {other.stack[j].info : j \in DOMAIN other.stack} :
                 p = PairOf(d))
  /\ [][Concurrent =>
          \/ other' = other
          \/ /\ other' = Context
             /\ pc' = other.pc /\ root' = other.root /\ state' = other.state
             /\ stack' = other.stack /\ ret' = other.ret /\ result' = other.result
             /\ calls' = other.calls /\ nextId' = other.nextId]_vars

\* Walk(&v) of struct{ A, B *T }{&t, &t} by two goroutines with
\* LoopProtection: both are in their walk, one has reported three values and
\* the other four, each has recorded its own
C37_Witness ==
  /\ Concurrent /\ root = 61 /\ state.LoopProtection
  /\ pc = "walking" /\ other.pc = "walking"
  /\ Len(calls) = 3 /\ Len(other.calls) = 4
  /\ <<1200, "T">> \in other.state.visited /\ <<1200, "T">> \notin state.visited

\* both goroutines have returned from the walk of the self-referencing S
C37_WitnessBothReturned ==
  /\ Concurrent /\ root = 5 /\ state.LoopProtection
  /\ pc = "done" /\ other.pc = "done" /\ AllNil /\ Len(calls) = 3
  /\ calls = PrevCalls /\ other.calls = PrevCalls
=============================================================================
